---- MODULE Spec2Model ----
(***************************************************************************)
(* Transfer wizard of purple-bank-transfer: the form values kept by        *)
(* react-hook-form, the zod schemas that validate them, and the            *)
(* form / summary / success step machine of the two TransferForm           *)
(* components (the tabbed domestic/international one and the               *)
(* international one with optional Stripe fields).                         *)
(*                                                                         *)
(* Strings are sequences of one-character strings, so that lengths,        *)
(* slices and character filters are computed as the code computes them.    *)
(***************************************************************************)
EXTENDS Integers, Sequences, FiniteSets, TLC

VARIABLES
    wizard,         \* which TransferForm component is mounted: "tabbed" or "stripe"
    mounted,        \* FALSE once the component has been torn down
    activeTab,      \* useState activeTab (tabbed wizard); "none" in the Stripe wizard
    step,           \* useState step
    formData,       \* useState formData (the committed draft), NULL when null
    values,         \* react-hook-form's current field values (the working draft)
    defaultValues,  \* react-hook-form's default values, what form.reset() restores
    errors,         \* formState.errors: the set of field paths that carry a message
    isSubmitted,    \* formState.isSubmitted
    timers,         \* pending setTimeout callbacks, oldest first; each holds
                    \* the formData its closure captured
    pendingEvents,  \* user events handled since a callback has been pending
    display         \* what the rendered TransferSummary shows, NoSummary if none

vars == <<wizard, mounted, activeTab, step, formData, values, defaultValues,
          errors, isSubmitted, timers, pendingEvents, display>>

----------------------------------------------------------------------------
(* Bounds of the model *)

\* at most this many setTimeout callbacks are pending at once
MaxTimers == 2

\* at most this many user events are handled within the delay of a pending
\* callback
MaxPendingEvents == 3

----------------------------------------------------------------------------
(* Strings *)

EMPTY == << >>
USD == <<"U", "S", "D">>

Digits == {"0", "1", "2", "3", "4", "5", "6", "7", "8", "9"}

\* null of useState<TransferFormValues | null>
NULL == [null |-> TRUE]

\* e.target.value.replace(/[^0-9.]/g, '')
SanitizeAmount(raw) == SelectSeq(raw, LAMBDA c : c \in Digits \cup {"."})

\* isNaN(Number(val)), for strings over digits, '.', '+', '-' and the letters
\* a, b, c (no white space, exponent, radix prefix or "Infinity"): "" is 0;
\* otherwise an optional sign, digits with at most one '.', and at least one
\* digit.
NumberIsNaN(val) ==
    LET signed   == Len(val) > 0 /\ val[1] \in {"+", "-"}
        body     == IF signed THEN Tail(val) ELSE val
        dots     == Len(SelectSeq(body, LAMBDA c : c = "."))
        digits   == Len(SelectSeq(body, LAMBDA c : c \in Digits))
    IN  IF val = EMPTY THEN FALSE
        ELSE ~ (/\ dots + digits = Len(body)
                /\ dots <= 1
                /\ digits >= 1)

\* Number(val) > 0, given that it is a number
NumberIsPositive(val) ==
    /\ ~ (Len(val) > 0 /\ val[1] = "-")
    /\ \E i \in 1..Len(val) : val[i] \in Digits \ {"0"}

\* a rule that lets zero through: Number(val) >= 0
AmountRefineNonNegative(val) ==
    ~ NumberIsNaN(val) /\ ~ (Len(val) > 0 /\ val[1] = "-")

\* (val) => !isNaN(Number(val)) && Number(val) > 0
AmountRefine(val) == ~ NumberIsNaN(val) /\ NumberIsPositive(val)

----------------------------------------------------------------------------
(* Schemas *)

MinRecipientName == 2
MinAccountNumber == 8
MinRoutingNumber == 9
MaxRoutingNumber == 9
MinBankName == 2
MinIban == 15
MinSwiftCode == 8
MaxSwiftCode == 11
MinBankAddress == 5
MinBankCountry == 2
MinCurrency == 3
MinStripeAccountId == 3
MinStripePublishableKey == 10

\* the keys of each z.object
DomesticKeys ==
    {"transferType", "recipientName", "accountNumber", "routingNumber",
     "bankName", "amount", "description"}

InternationalKeys ==
    {"transferType", "recipientName", "iban", "swiftCode", "bankName",
     "bankAddress", "bankCountry", "amount", "currency", "description"}

StripeKeys ==
    {"recipientName", "iban", "swiftCode", "bankName", "bankAddress",
     "bankCountry", "amount", "currency", "description", "useStripe",
     "stripeAccountId", "stripePublishableKey"}

\* the schema handed to zodResolver
ActiveSchema(w, tab) ==
    IF w = "stripe" THEN "stripe"
    ELSE IF tab = "domestic" THEN "domestic" ELSE "international"

SchemaKeys(schema) ==
    CASE schema = "domestic"      -> DomesticKeys
      [] schema = "international" -> InternationalKeys
      [] schema = "stripe"        -> StripeKeys

\* a minimum taken as exclusive
ZodMinExclusive(s, n) == Len(s) > n

\* a maximum that is not enforced
ZodMaxIgnored(s, n) == TRUE

\* z.string().min(n) and .max(n)
ZodMin(s, n) == Len(s) >= n
ZodMax(s, n) == Len(s) <= n

\* paths of the issues raised by domesticFormSchema
DomesticIssues(data) ==
       {f \in {"transferType"}  : data.transferType # "domestic"}
  \cup {f \in {"recipientName"} : ~ ZodMin(data.recipientName, MinRecipientName)}
  \cup {f \in {"accountNumber"} : ~ ZodMin(data.accountNumber, MinAccountNumber)}
  \cup {f \in {"routingNumber"} : ~ (/\ ZodMin(data.routingNumber, MinRoutingNumber)
                                     /\ ZodMax(data.routingNumber, MaxRoutingNumber))}
  \cup {f \in {"bankName"}      : ~ ZodMin(data.bankName, MinBankName)}
  \cup {f \in {"amount"}        : ~ AmountRefine(data.amount)}

\* paths of the issues raised by the fields shared by both international schemas
InternationalFieldIssues(data) ==
       {f \in {"recipientName"} : ~ ZodMin(data.recipientName, MinRecipientName)}
  \cup {f \in {"iban"}          : ~ ZodMin(data.iban, MinIban)}
  \cup {f \in {"swiftCode"}     : ~ (/\ ZodMin(data.swiftCode, MinSwiftCode)
                                     /\ ZodMax(data.swiftCode, MaxSwiftCode))}
  \cup {f \in {"bankName"}      : ~ ZodMin(data.bankName, MinBankName)}
  \cup {f \in {"bankAddress"}   : ~ ZodMin(data.bankAddress, MinBankAddress)}
  \cup {f \in {"bankCountry"}   : ~ ZodMin(data.bankCountry, MinBankCountry)}
  \cup {f \in {"amount"}        : ~ AmountRefine(data.amount)}
  \cup {f \in {"currency"}      : ~ ZodMin(data.currency, MinCurrency)}

\* paths of the issues raised by internationalFormSchema of the tabbed wizard
InternationalIssues(data) ==
       {f \in {"transferType"} : data.transferType # "international"}
  \cup InternationalFieldIssues(data)

\* a refinement that does not look at useStripe
StripeAccountIdRefineUnconditional(data) ==
    ~ (data.stripeAccountId = EMPTY
       \/ Len(data.stripeAccountId) < MinStripeAccountId)

\* first .refine of the Stripe schema: FALSE raises an issue at stripeAccountId
StripeAccountIdRefine(data) ==
    ~ (data.useStripe /\ (data.stripeAccountId = EMPTY
                          \/ Len(data.stripeAccountId) < MinStripeAccountId))

\* second .refine of the Stripe schema: FALSE raises an issue at stripePublishableKey
StripePublishableKeyRefine(data) ==
    ~ (data.useStripe /\ (data.stripePublishableKey = EMPTY
                          \/ Len(data.stripePublishableKey) < MinStripePublishableKey))

\* paths of the issues raised by internationalFormSchema of the Stripe wizard;
\* length and refine failures do not abort the object, so both object
\* refinements run whatever the fields reported
StripeIssues(data) ==
       InternationalFieldIssues(data)
  \cup {f \in {"stripeAccountId"}      : ~ StripeAccountIdRefine(data)}
  \cup {f \in {"stripePublishableKey"} : ~ StripePublishableKeyRefine(data)}

Issues(schema, data) ==
    CASE schema = "domestic"      -> DomesticIssues(data)
      [] schema = "international" -> InternationalIssues(data)
      [] schema = "stripe"        -> StripeIssues(data)

\* a parse that drops the optional key
ParsedDataWithoutOptional(schema, data) ==
    [f \in (SchemaKeys(schema) \cap DOMAIN data) \ {"description"} |-> data[f]]

\* the value a successful parse returns: the schema's keys, unknown keys stripped
ParsedData(schema, data) ==
    [f \in SchemaKeys(schema) \cap DOMAIN data |-> data[f]]

----------------------------------------------------------------------------
(* Form state *)

Tabs == {"domestic", "international"}

\* defaultValues of useForm
InitialValues(w, tab) ==
    CASE w = "stripe" ->
            [recipientName |-> EMPTY, iban |-> EMPTY, swiftCode |-> EMPTY,
             bankName |-> EMPTY, bankAddress |-> EMPTY, bankCountry |-> EMPTY,
             amount |-> EMPTY, currency |-> USD, description |-> EMPTY,
             useStripe |-> FALSE, stripeAccountId |-> EMPTY,
             stripePublishableKey |-> EMPTY]
      [] w = "tabbed" /\ tab = "domestic" ->
            [transferType |-> tab, recipientName |-> EMPTY, amount |-> EMPTY,
             description |-> EMPTY, accountNumber |-> EMPTY,
             routingNumber |-> EMPTY, bankName |-> EMPTY]
      [] w = "tabbed" /\ tab = "international" ->
            [transferType |-> tab, recipientName |-> EMPTY, amount |-> EMPTY,
             description |-> EMPTY, iban |-> EMPTY, swiftCode |-> EMPTY,
             bankName |-> EMPTY, bankAddress |-> EMPTY, bankCountry |-> EMPTY,
             currency |-> USD]

\* form.getValues(name) || ""
GetValueOrEmpty(vals, name) ==
    IF name \in DOMAIN vals THEN vals[name] ELSE EMPTY

\* a reset to the bare defaults of the tab, common fields included
TabResetValuesClearingAll(tab, vals) ==
    IF tab = "domestic"
    THEN [transferType |-> tab, recipientName |-> EMPTY, amount |-> EMPTY,
          description |-> EMPTY, accountNumber |-> EMPTY,
          routingNumber |-> EMPTY, bankName |-> EMPTY]
    ELSE [transferType |-> tab, recipientName |-> EMPTY, amount |-> EMPTY,
          description |-> EMPTY, iban |-> EMPTY, swiftCode |-> EMPTY,
          bankName |-> EMPTY, bankAddress |-> EMPTY, bankCountry |-> EMPTY,
          currency |-> USD]

\* a reset that leaves the fields of the tab just left in the form values
TabResetValuesKeepingOtherFields(tab, vals) ==
    LET fresh == TabResetValuesClearingAll(tab, vals)
    IN  [f \in DOMAIN vals \cup DOMAIN fresh |->
            IF f \in {"transferType"} \cup (DOMAIN fresh \ DOMAIN vals)
            THEN fresh[f] ELSE vals[f]]

\* the object the effect hands to form.reset when activeTab changes
TabResetValues(tab, vals) ==
    IF tab = "domestic"
    THEN [transferType |-> tab,
          recipientName |-> GetValueOrEmpty(vals, "recipientName"),
          amount |-> GetValueOrEmpty(vals, "amount"),
          description |-> GetValueOrEmpty(vals, "description"),
          accountNumber |-> EMPTY, routingNumber |-> EMPTY,
          bankName |-> GetValueOrEmpty(vals, "bankName")]
    ELSE [transferType |-> tab,
          recipientName |-> GetValueOrEmpty(vals, "recipientName"),
          amount |-> GetValueOrEmpty(vals, "amount"),
          description |-> GetValueOrEmpty(vals, "description"),
          iban |-> EMPTY, swiftCode |-> EMPTY,
          bankName |-> GetValueOrEmpty(vals, "bankName"),
          bankAddress |-> EMPTY, bankCountry |-> EMPTY, currency |-> USD]

\* the text inputs rendered in the form step
RenderedInputs(w, tab, vals) ==
    CASE w = "tabbed" /\ tab = "domestic"      -> DomesticKeys \ {"transferType"}
      [] w = "tabbed" /\ tab = "international" -> InternationalKeys \ {"transferType"}
      [] w = "stripe" ->
            (StripeKeys \ {"useStripe", "stripeAccountId", "stripePublishableKey"})
            \cup (IF vals.useStripe
                  THEN {"stripeAccountId", "stripePublishableKey"} ELSE {})

\* what the user may type into the input of field f
Typed(f) ==
    CASE f = "recipientName" ->
        {EMPTY, <<"J", "o">>}
      [] f = "accountNumber" ->
        {EMPTY, <<"1", "2", "3", "4", "5", "6", "7", "8">>}
      [] f = "routingNumber" ->
        {EMPTY, <<"1", "2", "3", "4", "5", "6", "7", "8", "9">>, <<"1", "2", "3", "4", "5", "6", "7", "8", "9", "0">>}
      [] f = "bankName" ->
        {EMPTY, <<"B", "A">>}
      [] f = "amount" ->
        {<<"a", "b", "c">>, <<"-", "5">>}
      [] f = "description" ->
        {EMPTY, <<"R", "e", "n", "t">>}
      [] f = "iban" ->
        {EMPTY, <<"G", "B", "2", "9", "N", "W", "B", "K", "6", "0", "1", "6", "1", "3", "3">>}
      [] f = "swiftCode" ->
        {EMPTY, <<"H", "S", "B", "C", "G", "B", "2", "L">>, <<"H", "S", "B", "C", "G", "B", "2", "L", "X", "X", "X", "X">>}
      [] f = "bankAddress" ->
        {EMPTY, <<"8", " ", "S", "q", ".">>}
      [] f = "bankCountry" ->
        {EMPTY, <<"U", "K">>}
      [] f = "currency" ->
        {<<"U", "S">>, USD}
      [] f = "stripeAccountId" ->
        {EMPTY, <<"a", "c", "c">>}
      [] f = "stripePublishableKey" ->
        {EMPTY, <<"p", "k", "_", "t", "e", "s", "t", "_", "a", "b">>}

\* an onChange that stores the text as typed
StoredValueAsTyped(f, raw) == raw

\* the value an input's onChange stores
StoredValue(f, raw) == IF f = "amount" THEN SanitizeAmount(raw) ELSE raw

\* formState.errors after field f changed: once the form has been submitted,
\* the resolver runs again and the message of f is set or cleared
ErrorsAfterChange(f, vals) ==
    IF isSubmitted
    THEN (errors \ {f}) \cup (Issues(ActiveSchema(wizard, activeTab), vals) \cap {f})
    ELSE errors

----------------------------------------------------------------------------
(* Summary *)

\* the character U+2022 of the IBAN mask token, as one character
BULLET == "U+2022"

Min(a, b) == IF a < b THEN a ELSE b
Max(a, b) == IF a > b THEN a ELSE b

\* String.prototype.slice(start, end): a negative index counts from the end,
\* and both are clamped to the string
Slice(str, start, end) ==
    LET n    == Len(str)
        from == IF start < 0 THEN Max(n + start, 0) ELSE Min(start, n)
        to   == IF end < 0 THEN Max(n + end, 0) ELSE Min(end, n)
    IN  SubSeq(str, from + 1, to)

\* str.slice(start)
SliceFrom(str, start) == Slice(str, start, Len(str))

\* str.replace(/./g, '*'), for a string without line terminators
ReplaceEachChar(str) == [i \in 1..Len(str) |-> "*"]

\* a mask that leaves the last 3 characters instead of the last 4
MaskedAccountNumberKeepingThree(accountNumber) ==
    ReplaceEachChar(Slice(accountNumber, 0, -3)) \o SliceFrom(accountNumber, -3)

\* accountNumber.slice(0, -4).replace(/./g, '*') + accountNumber.slice(-4)
MaskedAccountNumber(accountNumber) ==
    ReplaceEachChar(Slice(accountNumber, 0, -4)) \o SliceFrom(accountNumber, -4)

\* a mask that replaces each character of the middle of the IBAN
MaskedIbanCharByChar(iban) ==
    Slice(iban, 0, 4) \o [i \in 1..Len(Slice(iban, 4, -4)) |-> BULLET] \o SliceFrom(iban, -4)

\* iban.slice(0, 4) + (U+2022 nine times) + iban.slice(-4)
MaskedIban(iban) ==
    Slice(iban, 0, 4) \o [i \in 1..9 |-> BULLET] \o SliceFrom(iban, -4)

\* formData.transferType === 'domestic'
IsDomestic(data) ==
    "transferType" \in DOMAIN data /\ data.transferType = "domestic"

\* the character of the digit v
DigitChar(v) == <<"0", "1", "2", "3", "4", "5", "6", "7", "8", "9">>[v + 1]

\* the digit of the character c
DigitOf(c) == CHOOSE v \in 0..9 : DigitChar(v) = c

\* the length of the longest run of digits at the start of str
RECURSIVE DigitRun(_)
DigitRun(str) ==
    IF str # EMPTY /\ Head(str) \in Digits THEN 1 + DigitRun(Tail(str)) ELSE 0

\* parseFloat(str), for strings over digits and '.': the longest prefix that
\* is a decimal literal, as its digits before and after the point; NaN when
\* that prefix has no digit
ParseFloat(str) ==
    LET w    == DigitRun(str)
        rest == SubSeq(str, w + 1, Len(str))
        f    == IF rest # EMPTY /\ Head(rest) = "." THEN DigitRun(Tail(rest)) ELSE 0
    IN  IF w + f = 0 THEN [nan |-> TRUE]
        ELSE [nan |-> FALSE, whole |-> SubSeq(str, 1, w),
              frac |-> SubSeq(str, w + 2, w + 1 + f)]

RECURSIVE StripLeadingZeros(_)
StripLeadingZeros(ds) ==
    IF ds # EMPTY /\ Head(ds) = "0" THEN StripLeadingZeros(Tail(ds)) ELSE ds

\* the digits of the number one above that of the digits ds
RECURSIVE Increment(_)
Increment(ds) ==
    IF ds = EMPTY THEN <<"1">>
    ELSE LET init == SubSeq(ds, 1, Len(ds) - 1)
             last == ds[Len(ds)]
         IN  IF last = "9" THEN Increment(init) \o <<"0">>
             ELSE init \o <<DigitChar(DigitOf(last) + 1)>>

\* num.toFixed(2), for a number whose whole part has at most 15 digits, or is
\* one digit followed by 21 to 98 zeros, and whose third decimal is not an
\* exact tie: from 10^21 on toFixed gives the exponential notation of
\* Number.prototype.toString, otherwise the whole part, a point and two
\* decimals, rounded
ToFixed2(num) ==
    IF num.nan THEN <<"N", "a", "N">>
    ELSE LET whole  == StripLeadingZeros(num.whole)
             padded == num.frac \o <<"0", "0", "0">>
             cents  == (IF whole = EMPTY THEN <<"0">> ELSE whole) \o SubSeq(padded, 1, 2)
             up     == IF DigitOf(padded[3]) >= 5 THEN Increment(cents) ELSE cents
             exp    == Len(whole) - 1
         IN  IF Len(whole) >= 22
             THEN <<whole[1], "e", "+", DigitChar(exp \div 10), DigitChar(exp % 10)>>
             ELSE SubSeq(up, 1, Len(up) - 2) \o <<".">> \o SubSeq(up, Len(up) - 1, Len(up))

\* a summary that shows the description line whenever the draft has the key
DescriptionLineWhenPresent(data) ==
    IF "description" \in DOMAIN data
    THEN [description |-> data.description]
    ELSE << >>

\* {formData.description && (<div>...{formData.description}</div>)}
DescriptionLine(data) ==
    IF "description" \in DOMAIN data /\ data.description # EMPTY
    THEN [description |-> data.description]
    ELSE << >>

\* {!isDomestic && formData.currency}
CurrencyText(data) ==
    IF ~ IsDomestic(data) /\ "currency" \in DOMAIN data
    THEN [currency |-> data.currency]
    ELSE << >>

\* the lines TransferSummary shows above the separator
TransferDetails(data) ==
    IF IsDomestic(data)
    THEN [transferType  |-> "Domestic Transfer",
          recipientName |-> data.recipientName,
          bankName      |-> data.bankName,
          accountNumber |-> MaskedAccountNumber(data.accountNumber),
          routingNumber |-> data.routingNumber]
    ELSE [transferType  |-> "International Transfer",
          recipientName |-> data.recipientName,
          bankName      |-> data.bankName,
          iban          |-> MaskedIban(data.iban),
          swiftCode     |-> data.swiftCode,
          bankAddress   |-> data.bankAddress,
          bankCountry   |-> data.bankCountry]

\* what TransferSummary shows: the details, the amount after its "$" with the
\* currency text, and the description line, each present only when rendered
TransferSummary(data) ==
    TransferDetails(data)
    @@ [amount |-> ToFixed2(ParseFloat(data.amount))]
    @@ CurrencyText(data)
    @@ DescriptionLine(data)

NoSummary == [none |-> TRUE]

\* step === "summary" && formData && <TransferSummary formData={formData} />
View(isMounted, currentStep, data) ==
    IF isMounted /\ currentStep = "summary" /\ data # NULL
    THEN TransferSummary(data)
    ELSE NoSummary

----------------------------------------------------------------------------
(* Operations *)

Init ==
    /\ wizard \in {"tabbed", "stripe"}
    /\ mounted = TRUE
    /\ activeTab = IF wizard = "tabbed" THEN "domestic" ELSE "none"
    /\ step = "form"
    /\ formData = NULL
    /\ values = InitialValues(wizard, "domestic")
    /\ defaultValues = InitialValues(wizard, "domestic")
    /\ errors = {}
    /\ isSubmitted = FALSE
    /\ timers = << >>
    /\ pendingEvents = 0
    /\ display = NoSummary

\* the transaction result the wizard holds: its state is step and formData,
\* and nothing stores the id that createTransfer makes
TransactionResult == NULL

\* React renders again after the handler has run
Render == display' = View(mounted', step', formData')

\* a user event is handled: it comes before the pending callbacks run only if
\* it falls within their delay
UserEvent ==
    /\ timers # << >> => pendingEvents < MaxPendingEvents
    /\ pendingEvents' = IF timers = << >> THEN 0 ELSE pendingEvents + 1

\* the user edits the text input of field f; a change event comes only with a
\* text that differs from the one shown
FieldChange(f, raw) ==
    /\ mounted /\ step = "form"
    /\ f \in RenderedInputs(wizard, activeTab, values)
    /\ raw # values[f]
    /\ UserEvent
    /\ values' = [values EXCEPT ![f] = StoredValue(f, raw)]
    /\ errors' = ErrorsAfterChange(f, values')
    /\ UNCHANGED <<wizard, mounted, activeTab, step, formData, defaultValues,
                   isSubmitted, timers>>
    /\ Render

\* the user ticks or unticks the useStripe checkbox
UseStripeChange ==
    /\ mounted /\ step = "form"
    /\ UserEvent
    /\ wizard = "stripe"
    /\ values' = [values EXCEPT !.useStripe = ~ values.useStripe]
    /\ errors' = ErrorsAfterChange("useStripe", values')
    /\ UNCHANGED <<wizard, mounted, activeTab, step, formData, defaultValues,
                   isSubmitted, timers>>
    /\ Render

\* tabs that stay clickable while the summary is shown
HandleTabChangeInSummary(value) ==
    /\ mounted /\ step \in {"form", "summary"}
    /\ UserEvent
    /\ wizard = "tabbed"
    /\ value # activeTab
    /\ activeTab' = value
    /\ values' = TabResetValues(value, values)
    /\ defaultValues' = values'
    /\ errors' = {}
    /\ isSubmitted' = FALSE
    /\ UNCHANGED <<wizard, mounted, step, formData, timers>>
    /\ Render

\* handleTabChange, followed by the effect that resets the form
HandleTabChange(value) ==
    /\ mounted /\ step = "form"
    /\ UserEvent
    /\ wizard = "tabbed"
    /\ value # activeTab
    /\ activeTab' = value
    /\ values' = TabResetValues(value, values)
    /\ defaultValues' = values'
    /\ errors' = {}
    /\ isSubmitted' = FALSE
    /\ UNCHANGED <<wizard, mounted, step, formData, timers>>
    /\ Render

\* onSubmit(data)
OnSubmit(data) ==
    /\ formData' = data
    /\ step' = "summary"

\* a submit that stores the data before the resolver has accepted it
HandleSubmitCommittingFirst ==
    /\ mounted /\ step = "form"
    /\ UserEvent
    /\ LET schema == ActiveSchema(wizard, activeTab)
           issues == Issues(schema, values)
       IN  /\ errors' = issues
           /\ formData' = ParsedData(schema, values)
           /\ step' = IF issues = {} THEN "summary" ELSE step
    /\ isSubmitted' = TRUE
    /\ UNCHANGED <<wizard, mounted, activeTab, values, defaultValues, timers>>
    /\ Render

\* form.handleSubmit(onSubmit): the resolver runs; onSubmit is called with the
\* parsed data only if it raised no issue
HandleSubmit ==
    /\ mounted /\ step = "form"
    /\ UserEvent
    /\ LET schema == ActiveSchema(wizard, activeTab)
           issues == Issues(schema, values)
       IN  /\ errors' = issues
           /\ IF issues = {}
              THEN OnSubmit(ParsedData(schema, values))
              ELSE UNCHANGED <<formData, step>>
    /\ isSubmitted' = TRUE
    /\ UNCHANGED <<wizard, mounted, activeTab, values, defaultValues, timers>>
    /\ Render

\* a confirm that can also be invoked from the success step
HandleConfirmTransferAnyStep ==
    /\ mounted /\ step \in {"summary", "success"} /\ formData # NULL
    /\ UserEvent
    /\ Len(timers) < MaxTimers
    /\ timers' = Append(timers, [formData |-> formData])
    /\ UNCHANGED <<wizard, mounted, activeTab, step, formData, values,
                   defaultValues, errors, isSubmitted>>
    /\ Render

\* a confirm that also resets the form
HandleConfirmTransferResettingForm ==
    /\ mounted /\ step = "summary" /\ formData # NULL
    /\ UserEvent
    /\ Len(timers) < MaxTimers
    /\ timers' = Append(timers, [formData |-> formData])
    /\ values' = defaultValues
    /\ UNCHANGED <<wizard, mounted, activeTab, step, formData,
                   defaultValues, errors, isSubmitted>>
    /\ Render

\* handleConfirmTransfer: schedules the callback, whatever is already pending
HandleConfirmTransfer ==
    /\ mounted /\ step = "summary" /\ formData # NULL
    /\ UserEvent
    /\ Len(timers) < MaxTimers
    /\ timers' = Append(timers, [formData |-> formData])
    /\ UNCHANGED <<wizard, mounted, activeTab, step, formData, values,
                   defaultValues, errors, isSubmitted>>
    /\ Render

\* an edit that also resets the form
OnEditResettingForm ==
    /\ mounted /\ step = "summary" /\ formData # NULL
    /\ UserEvent
    /\ step' = "form"
    /\ values' = defaultValues
    /\ UNCHANGED <<wizard, mounted, activeTab, formData, defaultValues,
                   errors, isSubmitted, timers>>
    /\ Render

\* onEdit of the summary
OnEdit ==
    /\ mounted /\ step = "summary" /\ formData # NULL
    /\ UserEvent
    /\ step' = "form"
    /\ UNCHANGED <<wizard, mounted, activeTab, formData, values, defaultValues,
                   errors, isSubmitted, timers>>
    /\ Render

\* a callback that shows the toast and forgets setStep
TimerFiresWithoutSetStep ==
    /\ timers # << >>
    /\ timers' = Tail(timers)
    /\ pendingEvents' = IF timers' = << >> THEN 0 ELSE pendingEvents
    /\ UNCHANGED <<wizard, mounted, activeTab, step, formData, values,
                   defaultValues, errors, isSubmitted>>
    /\ Render

\* a callback that also clears the committed draft
TimerFiresClearingDraft ==
    /\ timers # << >>
    /\ timers' = Tail(timers)
    /\ pendingEvents' = IF timers' = << >> THEN 0 ELSE pendingEvents
    /\ step' = IF mounted THEN "success" ELSE step
    /\ formData' = NULL
    /\ UNCHANGED <<wizard, mounted, activeTab, values, defaultValues,
                   errors, isSubmitted>>
    /\ Render

\* the setTimeout callback of handleConfirmTransfer runs: toast, then
\* setStep("success"), which React drops if the component is gone
TimerFires ==
    /\ timers # << >>
    /\ timers' = Tail(timers)
    /\ pendingEvents' = IF timers' = << >> THEN 0 ELSE pendingEvents
    /\ step' = IF mounted THEN "success" ELSE step
    /\ UNCHANGED <<wizard, mounted, activeTab, formData, values, defaultValues,
                   errors, isSubmitted>>
    /\ Render

\* handleNewTransfer
HandleNewTransfer ==
    /\ mounted /\ step = "success"
    /\ UserEvent
    /\ values' = defaultValues
    /\ errors' = {}
    /\ isSubmitted' = FALSE
    /\ step' = "form"
    /\ formData' = NULL
    /\ UNCHANGED <<wizard, mounted, activeTab, defaultValues, timers>>
    /\ Render

\* the page that shows the wizard goes away: React releases the state of the
\* component and of its form, modelled as their initial contents; step stays,
\* so that a late setStep would show. Nothing clears the timers.
Unmount ==
    /\ mounted
    /\ UserEvent
    /\ mounted' = FALSE
    /\ formData' = NULL
    /\ values' = InitialValues(wizard, activeTab)
    /\ defaultValues' = InitialValues(wizard, activeTab)
    /\ errors' = {}
    /\ isSubmitted' = FALSE
    /\ UNCHANGED <<wizard, activeTab, step, timers>>
    /\ Render

AllFields == DomesticKeys \cup InternationalKeys \cup StripeKeys

Next ==
    \/ \E f \in AllFields \ {"transferType", "useStripe"} :
          \E raw \in Typed(f) : FieldChange(f, raw)
    \/ UseStripeChange
    \/ \E value \in Tabs : HandleTabChange(value)
    \/ HandleSubmit
    \/ HandleConfirmTransfer
    \/ OnEdit
    \/ TimerFires
    \/ HandleNewTransfer
    \/ Unmount

Spec == Init /\ [][Next]_vars

\* the event loop runs every pending timer callback
FairSpec == Spec /\ WF_vars(TimerFires)

----------------------------------------------------------------------------
(* TransferSummary on its own: any formData a parent may pass as props *)

MaxAccountNumberLen == 10
MaxIbanLen == 20

\* the i-th character of "12345678901234..."
DigitAt(i) == <<"1", "2", "3", "4", "5", "6", "7", "8", "9", "0">>[((i - 1) % 10) + 1]

\* the i-th character of "GB29NWBK12345678901234..."
IbanCharAt(i) ==
    IF i <= 8 THEN <<"G", "B", "2", "9", "N", "W", "B", "K">>[i]
    ELSE DigitAt(i - 8)

\* every stretch of the digit string, the empty one included
SampleAccountNumbers ==
    {[k \in 1..p[2] |-> DigitAt(p[1] + k - 1)] :
        p \in {q \in (1..MaxAccountNumberLen) \X (0..MaxAccountNumberLen) :
                   q[1] + q[2] - 1 <= MaxAccountNumberLen}}

\* every stretch of the IBAN string that the schema's length rule accepts
SampleIbans ==
    {[k \in 1..p[2] |-> IbanCharAt(p[1] + k - 1)] :
        p \in {q \in (1..MaxIbanLen) \X (MinIban..MaxIbanLen) :
                   q[1] + q[2] - 1 <= MaxIbanLen}}

\* amounts the schema accepts, the last one being 10^21
SummaryAmounts ==
    {<<"5">>, <<"1", "2", ".", "5", "0">>, <<"0", ".", "0", "1">>,
     <<".", "5">>, <<"5", ".">>, <<"0", "0", "7">>,
     <<"1", ".", "2", "3", "9">>, <<"0", ".", "9", "9", "9">>,
     <<"2", ".", "5">>, <<"1">> \o [i \in 1..21 |-> "0"]}

\* the optional description: left out, empty, or given
SummaryDescriptions == {<< >>, [description |-> EMPTY],
                        [description |-> <<"R", "e", "n", "t">>]}

\* the formData props of the samples: account numbers and IBANs of every
\* length, then drafts of the three schemas with every amount and description
SummaryProps ==
    {[transferType |-> "domestic", recipientName |-> <<"J", "o">>,
      bankName |-> <<"B", "A">>, accountNumber |-> a,
      routingNumber |-> <<"1", "2", "3", "4", "5", "6", "7", "8", "9">>,
      amount |-> <<"5">>, description |-> EMPTY] : a \in SampleAccountNumbers}
    \cup
    {[transferType |-> "international", recipientName |-> <<"J", "o">>,
      bankName |-> <<"B", "A">>, iban |-> i,
      swiftCode |-> <<"H", "S", "B", "C", "G", "B", "2", "L">>,
      bankAddress |-> <<"8", " ", "S", "q", ".">>,
      bankCountry |-> <<"U", "K">>, currency |-> USD,
      amount |-> <<"5">>, description |-> EMPTY] : i \in SampleIbans}
    \cup
    {[transferType |-> "domestic", recipientName |-> <<"J", "o">>,
      bankName |-> <<"B", "A">>,
      accountNumber |-> <<"1", "2", "3", "4", "5", "6", "7", "8">>,
      routingNumber |-> <<"1", "2", "3", "4", "5", "6", "7", "8", "9">>,
      amount |-> a] @@ d : a \in SummaryAmounts, d \in SummaryDescriptions}
    \cup
    {[transferType |-> "international", recipientName |-> <<"J", "o">>,
      bankName |-> <<"B", "A">>,
      iban |-> <<"G", "B", "2", "9", "N", "W", "B", "K", "6", "0", "1", "6", "1", "3", "3">>,
      swiftCode |-> <<"H", "S", "B", "C", "G", "B", "2", "L">>,
      bankAddress |-> <<"8", " ", "S", "q", ".">>,
      bankCountry |-> <<"U", "K">>, currency |-> USD,
      amount |-> a] @@ d : a \in SummaryAmounts, d \in SummaryDescriptions}
    \cup
    {[recipientName |-> <<"J", "o">>, bankName |-> <<"B", "A">>,
      iban |-> <<"G", "B", "2", "9", "N", "W", "B", "K", "6", "0", "1", "6", "1", "3", "3">>,
      swiftCode |-> <<"H", "S", "B", "C", "G", "B", "2", "L">>,
      bankAddress |-> <<"8", " ", "S", "q", ".">>,
      bankCountry |-> <<"U", "K">>, currency |-> USD,
      amount |-> a, useStripe |-> FALSE, stripeAccountId |-> EMPTY,
      stripePublishableKey |-> EMPTY] @@ d :
        a \in SummaryAmounts, d \in SummaryDescriptions}

\* the parent is in the summary step and React has not rendered yet
SummaryInit ==
    /\ formData \in SummaryProps
    /\ wizard = (IF "transferType" \in DOMAIN formData THEN "tabbed" ELSE "stripe")
    /\ mounted = TRUE
    /\ activeTab = (IF wizard = "tabbed" THEN formData.transferType ELSE "none")
    /\ step = "summary"
    /\ values = InitialValues(wizard, activeTab)
    /\ defaultValues = values
    /\ errors = {}
    /\ isSubmitted = FALSE
    /\ timers = << >>
    /\ pendingEvents = 0
    /\ display = NoSummary

\* React renders TransferSummary with the props
RenderSummary ==
    /\ display = NoSummary
    /\ display' = View(mounted, step, formData)
    /\ UNCHANGED <<wizard, mounted, activeTab, step, formData, values,
                   defaultValues, errors, isSubmitted, timers, pendingEvents>>

SummaryNext == RenderSummary

SummarySpec == SummaryInit /\ [][SummaryNext]_vars

----------------------------------------------------------------------------
(* handleSubmit's resolver on its own: any values the schema may be handed *)

SampleAmounts ==
    {EMPTY, <<"0">>, <<"-", "5">>, <<"a", "b", "c">>,
     <<"1", "2", ".", "5", "0">>, <<"0", ".", "0", "1">>,
     <<"5">>, <<"+", "5">>, <<"-", "0">>, <<"0", "0">>, <<"0", ".", "0">>,
     <<".">>, <<".", "5">>, <<"5", ".">>, <<"1", ".", "2", ".", "3">>,
     <<"5", "a">>, <<"-">>}

SampleStripeAccountIds == {EMPTY, <<"a", "c">>, <<"a", "c", "c">>}

SampleStripePublishableKeys ==
    {EMPTY, <<"p", "k", "_", "t", "e", "s", "t", "_", "a">>,
     <<"p", "k", "_", "t", "e", "s", "t", "_", "a", "b">>}

SampleRecipientNames == {EMPTY, <<"J", "o">>}

\* drafts whose fields other than those sampled satisfy the schema
ResolverInputs(schema) ==
    CASE schema = "domestic" ->
            {[transferType |-> "domestic", recipientName |-> r,
              accountNumber |-> <<"1", "2", "3", "4", "5", "6", "7", "8">>,
              routingNumber |-> <<"1", "2", "3", "4", "5", "6", "7", "8", "9">>,
              bankName |-> <<"B", "A">>, amount |-> a, description |-> EMPTY] :
                r \in SampleRecipientNames, a \in SampleAmounts}
      [] schema = "international" ->
            {[transferType |-> "international", recipientName |-> r,
              iban |-> <<"G", "B", "2", "9", "N", "W", "B", "K", "6", "0", "1", "6", "1", "3", "3">>,
              swiftCode |-> <<"H", "S", "B", "C", "G", "B", "2", "L">>,
              bankName |-> <<"B", "A">>, bankAddress |-> <<"8", " ", "S", "q", ".">>,
              bankCountry |-> <<"U", "K">>, amount |-> a, currency |-> USD,
              description |-> EMPTY] :
                r \in SampleRecipientNames, a \in SampleAmounts}
      [] schema = "stripe" ->
            {[recipientName |-> r,
              iban |-> <<"G", "B", "2", "9", "N", "W", "B", "K", "6", "0", "1", "6", "1", "3", "3">>,
              swiftCode |-> <<"H", "S", "B", "C", "G", "B", "2", "L">>,
              bankName |-> <<"B", "A">>, bankAddress |-> <<"8", " ", "S", "q", ".">>,
              bankCountry |-> <<"U", "K">>, amount |-> a, currency |-> USD,
              description |-> EMPTY, useStripe |-> u, stripeAccountId |-> id,
              stripePublishableKey |-> key] :
                r \in SampleRecipientNames, a \in SampleAmounts, u \in BOOLEAN,
                id \in SampleStripeAccountIds, key \in SampleStripePublishableKeys}

\* a form in the form step, not yet submitted, holding the values
ResolverInit ==
    /\ wizard \in {"tabbed", "stripe"}
    /\ mounted = TRUE
    /\ activeTab \in (IF wizard = "tabbed" THEN Tabs ELSE {"none"})
    /\ step = "form"
    /\ formData = NULL
    /\ values \in ResolverInputs(ActiveSchema(wizard, activeTab))
    /\ defaultValues = InitialValues(wizard, activeTab)
    /\ errors = {}
    /\ isSubmitted = FALSE
    /\ timers = << >>
    /\ pendingEvents = 0
    /\ display = NoSummary

ResolverNext == HandleSubmit

ResolverSpec == ResolverInit /\ [][ResolverNext]_vars

----------------------------------------------------------------------------
(* The rules of the data model, as the claims read them *)

\* the rule the data model gives field f of a draft d
FieldRule(f, d) ==
    CASE f = "transferType"         -> TRUE
      [] f = "recipientName"        -> Len(d[f]) >= 2
      [] f = "bankName"             -> Len(d[f]) >= 2
      [] f = "amount"               -> AmountRefine(d[f])
      [] f = "description"          -> TRUE
      [] f = "accountNumber"        -> Len(d[f]) >= 8
      [] f = "routingNumber"        -> Len(d[f]) = 9
      [] f = "iban"                 -> Len(d[f]) >= 15
      [] f = "swiftCode"            -> Len(d[f]) \in 8..11
      [] f = "bankAddress"          -> Len(d[f]) >= 5
      [] f = "bankCountry"          -> Len(d[f]) >= 2
      [] f = "currency"             -> Len(d[f]) >= 3
      [] f = "useStripe"            -> TRUE
      [] f = "stripeAccountId"      -> d.useStripe => Len(d[f]) >= 3
      [] f = "stripePublishableKey" -> d.useStripe => Len(d[f]) >= 10

\* the fields of the working draft whose rule is violated
ViolatedFields == {f \in DOMAIN values : ~ FieldRule(f, values)}

----------------------------------------------------------------------------
(* Claims *)

\* C1: when every rule of the active variant holds for the working draft, a
\* submit moves step from form to summary and commits a draft equal to the
\* working draft, field for field.
C1_ValidSubmitCommitsDraft ==
    [][(HandleSubmit /\ ViolatedFields = {})
         => (step = "form" /\ step' = "summary" /\ formData' = values)]_vars

\* a valid draft with Stripe enabled has been committed
C1_Witness ==
    /\ step = "summary" /\ isSubmitted
    /\ wizard = "stripe" /\ values.useStripe
    /\ formData = values

\* C2: when the working draft violates a rule of the active variant, a submit
\* leaves step at form and the fields that carry an error are exactly the
\* violated ones.
C2_InvalidSubmitReportsViolatedFields ==
    [][(HandleSubmit /\ ViolatedFields # {})
         => (step' = "form" /\ errors' # {} /\ errors' = ViolatedFields)]_vars

\* a submit was rejected with errors on several fields, while other fields
\* hold a valid value and carry none
C2_Witness ==
    /\ step = "form" /\ isSubmitted /\ formData = NULL
    /\ Cardinality(errors) >= 2
    /\ errors = ViolatedFields
    /\ Len(values.recipientName) >= 2

\* C3: a confirm invoked while a submission is already pending is a no-op:
\* it issues no second submission.
C3_ConfirmWhilePendingIsNoOp ==
    [][(HandleConfirmTransfer /\ timers # << >>) => timers' = timers]_vars

\* C4: step changes only along form->summary, summary->success,
\* summary->form and success->form.
C4_StepTransitions ==
    [][step' # step =>
         <<step, step'>> \in {<<"form", "summary">>, <<"summary", "success">>,
                              <<"summary", "form">>, <<"success", "form">>}]_vars

\* C5: the callback of a pending confirm changes step only if the wizard is
\* still mounted and still waiting in summary.
C5_LateCallbackIsIgnored ==
    [][(TimerFires /\ step' # step) => (mounted /\ step = "summary")]_vars

\* the schema default of field f
SchemaDefault(f) ==
    CASE f = "transferType" -> activeTab
      [] f = "currency"     -> USD
      [] f = "useStripe"    -> FALSE
      [] OTHER              -> EMPTY

\* C6: starting a new transfer from success sets step to form, clears the
\* committed draft and resets every field of the working draft to its schema
\* default.
C6_NewTransferResetsToDefaults ==
    [][HandleNewTransfer =>
         /\ step' = "form"
         /\ formData' = NULL
         /\ \A f \in DOMAIN values' : values'[f] = SchemaDefault(f)]_vars

\* C7: edit is taken only in summary; it sets step to form and changes neither
\* the committed nor the working draft, which are equal right after it.
C7_EditKeepsDrafts ==
    [][OnEdit =>
         /\ step = "summary" /\ step' = "form"
         /\ formData' = formData /\ values' = values
         /\ values' = formData']_vars

\* the user is back on the form after an edit, the committed draft still there
C7_Witness ==
    /\ mounted /\ step = "form" /\ isSubmitted
    /\ formData # NULL /\ values = formData
    /\ timers = << >>

\* C8: once a confirm has scheduled its callback, step eventually becomes
\* success unless the wizard is unmounted.
C8_ConfirmLeadsToSuccess ==
    (mounted /\ timers # << >>) ~> (step = "success" \/ ~ mounted)

\* the callback of a confirm has run and the wizard shows success
C8_Witness ==
    /\ mounted /\ step = "success" /\ formData # NULL
    /\ timers = << >>

\* C10: a submission is started only by a confirm and only in summary; the
\* other operations never start one.
C10_OnlyConfirmStartsSubmission ==
    [][/\ Len(timers') > Len(timers)
          => (mounted /\ step = "summary" /\ HandleConfirmTransfer)
       /\ (\/ HandleSubmit
           \/ OnEdit
           \/ HandleNewTransfer
           \/ \E value \in Tabs : HandleTabChange(value))
          => timers' = timers]_vars

\* a submission is pending while the summary is shown
C10_Witness ==
    /\ mounted /\ step = "summary"
    /\ Len(timers) = 1

\* C11: a submit that fails validation leaves step and the committed draft as
\* they were: nothing is committed and an earlier committed draft stays.
C11_FailedSubmitCommitsNothing ==
    [][(HandleSubmit /\ ViolatedFields # {})
         => (step' = step /\ formData' = formData)]_vars

\* after an edit, a changed draft was rejected and the earlier committed draft
\* is still there
C11_Witness ==
    /\ mounted /\ step = "form" /\ isSubmitted
    /\ errors # {} /\ errors = ViolatedFields
    /\ formData # NULL

\* the fields that belong to one variant only
VariantFields(variant) ==
    IF variant = "domestic"
    THEN {"accountNumber", "routingNumber"}
    ELSE {"iban", "swiftCode", "bankAddress", "bankCountry", "currency"}

\* C12: a tab change happens only in the form step; it makes the chosen
\* variant the transferType of the working draft and the active schema, resets
\* the fields of that variant to their defaults and keeps recipientName, amount
\* and description.
C12_TabChangeResetsVariantFields ==
    [][\A value \in Tabs :
         HandleTabChange(value) =>
           /\ step = "form" /\ step' = "form"
           /\ activeTab' = value
           /\ values'.transferType = value
           /\ ActiveSchema(wizard', activeTab') = value
           /\ \A f \in VariantFields(value) : values'[f] = SchemaDefault(f)
           /\ \A f \in {"recipientName", "amount", "description"} :
                 values'[f] = values[f]]_vars

\* the international tab was just chosen with the common fields filled in
C12_Witness ==
    /\ mounted /\ step = "form" /\ wizard = "tabbed"
    /\ activeTab = "international"
    /\ defaultValues = values
    /\ Len(values.recipientName) > 0 /\ Len(values.amount) > 0
    /\ Len(values.description) > 0
    /\ values.iban = EMPTY

\* C13: in every state of the tabbed wizard the working draft has exactly the
\* fields of the variant its transferType names, none of the other variant,
\* transferType is the active tab, and the resolver's schema is that variant's.
C13_OneVariantAtATime ==
    wizard = "tabbed" =>
        /\ values.transferType = activeTab
        /\ DOMAIN values = SchemaKeys(values.transferType)
        /\ \A other \in Tabs \ {values.transferType} :
              DOMAIN values \cap VariantFields(other) = {}
        /\ ActiveSchema(wizard, activeTab) = values.transferType

\* an international draft is under review after the tab was changed
C13_Witness ==
    /\ mounted /\ step = "summary" /\ wizard = "tabbed"
    /\ activeTab = "international"
    /\ formData.transferType = "international"
    /\ Len(values.iban) > 0

\* C14: the draft committed at the form->summary transition has the active
\* tab as transferType, and while the mounted wizard stays in summary or
\* success neither the active tab nor the committed transferType changes.
C14_TransferTypeFixedUnderReview ==
    [][/\ (wizard = "tabbed" /\ step = "form" /\ step' = "summary")
          => formData'.transferType = activeTab'
       /\ (mounted' /\ step \in {"summary", "success"}
                    /\ step' \in {"summary", "success"})
          => /\ activeTab' = activeTab
             /\ (formData' = NULL) = (formData = NULL)
             /\ (wizard = "tabbed" /\ formData # NULL)
                   => formData'.transferType = formData.transferType]_vars

\* the callback of a confirmed international transfer has run
C14_Witness ==
    /\ mounted /\ step = "success" /\ wizard = "tabbed"
    /\ formData # NULL
    /\ formData.transferType = "international"
    /\ activeTab = "international"

\* the string has no other character than 0-9 and '.'
OnlyDigitsAndDots(str) == \A i \in 1..Len(str) : str[i] \in Digits \cup {"."}

\* C17: in every state the amount of the working draft, and with it the amount
\* of a committed draft, has no other character than 0-9 and '.'.
C17_AmountIsSanitized ==
    /\ OnlyDigitsAndDots(values.amount)
    /\ formData # NULL => OnlyDigitsAndDots(formData.amount)

\* the user typed "-5" and the draft was committed with what the input kept
C17_Witness ==
    /\ step = "summary" /\ formData # NULL
    /\ formData.amount = <<"5">>
    /\ values.amount = <<"5">>

StripeFields == {"useStripe", "stripeAccountId", "stripePublishableKey"}

\* C15: in the Stripe variant, validation reports stripeAccountId iff useStripe
\* is true and stripeAccountId has fewer than 3 characters, and
\* stripePublishableKey iff useStripe is true and it has fewer than 10
\* characters; useStripe is never reported; with useStripe true,
\* stripeAccountId empty and every other field in order the submit fails with
\* stripeAccountId alone; with useStripe false no Stripe field is reported
\* and the submit is decided by the other fields.
C15_StripeRules ==
    (isSubmitted /\ wizard = "stripe") =>
        /\ ("stripeAccountId" \in errors)
             <=> (values.useStripe /\ Len(values.stripeAccountId) < 3)
        /\ ("stripePublishableKey" \in errors)
             <=> (values.useStripe /\ Len(values.stripePublishableKey) < 10)
        /\ "useStripe" \notin errors
        /\ (/\ values.useStripe
            /\ values.stripeAccountId = EMPTY
            /\ ViolatedFields \subseteq {"stripeAccountId"})
             => (errors = {"stripeAccountId"} /\ step = "form" /\ formData = NULL)
        /\ ~ values.useStripe
             => /\ errors \cap StripeFields = {}
                /\ (ViolatedFields \ StripeFields = {}) <=> (step = "summary")

C15_Witness ==
    /\ isSubmitted /\ wizard = "stripe" /\ step = "form"
    /\ values.useStripe
    /\ values.stripeAccountId = EMPTY
    /\ Len(values.stripePublishableKey) = 10
    /\ errors = {"stripeAccountId"}

\* the value of a string of digits
RECURSIVE DigitsValue(_)
DigitsValue(ds) ==
    IF ds = EMPTY THEN 0
    ELSE 10 * DigitsValue(SubSeq(ds, 1, Len(ds) - 1))
         + (CHOOSE v \in 0..9 : <<"0", "1", "2", "3", "4", "5", "6", "7", "8", "9">>[v + 1] = ds[Len(ds)])

AllDigits(str) == \A i \in 1..Len(str) : str[i] \in Digits

\* str is an optionally signed decimal literal: digits, then optionally a
\* '.' and digits, with at least one digit in all
IsDecimalLiteral(str) ==
    LET body == IF Len(str) > 0 /\ str[1] \in {"+", "-"} THEN Tail(str) ELSE str
    IN  \E k \in 0..Len(body) :
            LET whole == SubSeq(body, 1, k)
                rest  == SubSeq(body, k + 1, Len(body))
            IN  /\ AllDigits(whole)
                /\ \/ rest = EMPTY /\ k >= 1
                   \/ /\ rest # EMPTY /\ rest[1] = "." /\ AllDigits(Tail(rest))
                      /\ k + Len(rest) - 1 >= 1

\* str parses as a number strictly greater than zero: a decimal literal, not
\* negative, whose digits do not all stand for zero
ParsesAsPositiveNumber(str) ==
    /\ IsDecimalLiteral(str)
    /\ str[1] # "-"
    /\ DigitsValue(SelectSeq(str, LAMBDA c : c \in Digits)) > 0

\* C16: the amount rule accepts a string iff it parses as a number strictly
\* greater than zero, in the domestic, the international and the Stripe
\* schema alike: "0", "-5", "abc" and "" are rejected, with amount the only
\* field reported when the other fields are in order; "12.50" and "0.01" are
\* accepted.
C16_AmountRule ==
    isSubmitted =>
        /\ ("amount" \notin errors) <=> ParsesAsPositiveNumber(values.amount)
        /\ values.amount \in {<<"0">>, <<"-", "5">>, <<"a", "b", "c">>, EMPTY}
             => /\ "amount" \in errors
                /\ step = "form"
                /\ (ViolatedFields \ {"amount"} = {}) => errors = {"amount"}
        /\ values.amount \in {<<"1", "2", ".", "5", "0">>, <<"0", ".", "0", "1">>}
             => /\ "amount" \notin errors
                /\ (ViolatedFields = {}) => (step = "summary")

C16_Witness ==
    /\ isSubmitted /\ step = "form"
    /\ ActiveSchema(wizard, activeTab) = "international"
    /\ values.amount = <<"-", "5">>
    /\ errors = {"amount"}

\* the account number the rendered summary shows for the props
ShownAccountNumber == display.accountNumber

\* the summary of a domestic draft is on screen
DomesticSummaryShown == display # NoSummary /\ IsDomestic(formData)

\* C18: for every account number of length n >= 4 the summary shows a string
\* of length n whose first n-4 characters are all '*' and whose last 4
\* characters are the last 4 of the account number ("1234567890" is shown as
\* "******7890"); the last 4 characters of the shown value are the original
\* suffix.
C18_AccountNumberMask ==
    (DomesticSummaryShown /\ Len(formData.accountNumber) >= 4) =>
        LET acc == formData.accountNumber
            n   == Len(acc)
        IN  /\ Len(ShownAccountNumber) = n
            /\ \A i \in 1..(n - 4) : ShownAccountNumber[i] = "*"
            /\ \A i \in (n - 3)..n : ShownAccountNumber[i] = acc[i]
            /\ SubSeq(ShownAccountNumber, n - 3, n) = SubSeq(acc, n - 3, n)
            /\ acc = <<"1", "2", "3", "4", "5", "6", "7", "8", "9", "0">>
                 => ShownAccountNumber = <<"*", "*", "*", "*", "*", "*", "7", "8", "9", "0">>

C18_Witness ==
    /\ DomesticSummaryShown
    /\ formData.accountNumber = <<"1", "2", "3", "4", "5", "6", "7", "8", "9", "0">>
    /\ ShownAccountNumber = <<"*", "*", "*", "*", "*", "*", "7", "8", "9", "0">>

\* the summary of a draft that is not domestic is on screen
IbanSummaryShown == display # NoSummary /\ ~ IsDomestic(formData)

\* C19: for every IBAN of length >= 15 the summary shows the IBAN's first 4
\* characters, then 9 mask characters, then the IBAN's last 4 characters: 17
\* characters whatever the IBAN's length.
C19_IbanMask ==
    (IbanSummaryShown /\ Len(formData.iban) >= 15) =>
        LET iban == formData.iban
            n    == Len(iban)
        IN  /\ Len(display.iban) = 17
            /\ \A i \in 1..4 : display.iban[i] = iban[i]
            /\ \A i \in 5..13 : display.iban[i] = BULLET
            /\ \A i \in 1..4 : display.iban[13 + i] = iban[n - 4 + i]

C19_Witness ==
    /\ IbanSummaryShown
    /\ Len(formData.iban) > 17
    /\ Len(display.iban) = 17

\* C20: for an account number with fewer than 4 characters the summary masks
\* everything: every character of the shown value is the mask character.
C20_ShortAccountNumberFullyMasked ==
    (DomesticSummaryShown /\ Len(formData.accountNumber) < 4) =>
        /\ Len(ShownAccountNumber) = Len(formData.accountNumber)
        /\ \A i \in 1..Len(ShownAccountNumber) : ShownAccountNumber[i] = "*"

\* the summary is on screen
SummaryShown == display # NoSummary

\* str is digits, a point and two digits
HasTwoDecimals(str) ==
    /\ Len(str) >= 4
    /\ str[Len(str) - 2] = "."
    /\ \A i \in (1..Len(str)) \ {Len(str) - 2} : str[i] \in Digits

\* C21: in the summary the amount of a validated draft is shown with exactly
\* two decimal places, and the currency code is shown iff the draft is not
\* domestic (the Stripe draft, which has no transferType, included).
C21_AmountLine ==
    (SummaryShown /\ AmountRefine(formData.amount)) =>
        /\ HasTwoDecimals(display.amount)
        /\ ("currency" \in DOMAIN display)
             <=> ~ ("transferType" \in DOMAIN formData
                    /\ formData.transferType = "domestic")
        /\ "currency" \in DOMAIN display => display.currency = formData.currency

\* C22: the summary has a description line iff the draft's description is
\* present and not empty, and the line shows that description.
C22_DescriptionLine ==
    SummaryShown =>
        /\ ("description" \in DOMAIN display)
             <=> ("description" \in DOMAIN formData /\ Len(formData.description) > 0)
        /\ "description" \in DOMAIN display
             => display.description = formData.description

C22_Witness ==
    /\ SummaryShown
    /\ "description" \in DOMAIN formData
    /\ formData.description = EMPTY
    /\ "description" \notin DOMAIN display

\* a submit whose working draft the resolver accepts
SuccessfulSubmit == HandleSubmit /\ ViolatedFields = {}

\* C23: while step is summary the committed draft is frozen: showing the
\* summary and confirming leave the committed draft and the working draft as
\* they are, and the committed draft changes only on a successful submit or on
\* New Transfer.
C23_DraftFrozenInSummary ==
    [][/\ HandleConfirmTransfer => (formData' = formData /\ values' = values)
       /\ (mounted' /\ step = "summary" /\ step' = "summary")
            => (formData' = formData /\ values' = values)
       /\ (mounted' /\ formData' # formData)
            => (SuccessfulSubmit \/ HandleNewTransfer)]_vars

C23_Witness ==
    /\ mounted /\ step = "summary" /\ SummaryShown
    /\ timers # << >>
    /\ Head(timers).formData = formData

\* C24: the wizard holds a transaction result iff step is success.
C24_TransactionResultIffSuccess ==
    mounted => ((TransactionResult # NULL) <=> (step = "success"))

\* the schema a committed draft was parsed by
VariantOf(draft) ==
    IF "transferType" \in DOMAIN draft THEN draft.transferType ELSE "stripe"

\* C25: a committed draft satisfies every rule of its own variant: a domestic
\* one has an accountNumber of at least 8 characters and a routingNumber of
\* exactly 9, a Stripe one has useStripe false or both Stripe fields at their
\* minimum lengths; the summary is never rendered from any other draft.
C25_CommittedDraftIsValid ==
    formData # NULL =>
        /\ DOMAIN formData = SchemaKeys(VariantOf(formData))
        /\ \A f \in DOMAIN formData : FieldRule(f, formData)
        /\ VariantOf(formData) = "domestic"
             => (Len(formData.accountNumber) >= 8 /\ Len(formData.routingNumber) = 9)
        /\ VariantOf(formData) = "stripe"
             => \/ ~ formData.useStripe
                \/ /\ Len(formData.stripeAccountId) >= 3
                   /\ Len(formData.stripePublishableKey) >= 10

C25_Witness ==
    /\ mounted /\ step = "summary" /\ SummaryShown
    /\ wizard = "stripe"
    /\ formData.useStripe
    /\ Len(formData.stripePublishableKey) = 10

\* C26: step summary or success implies a committed draft.
C26_DraftPresentAfterForm ==
    (mounted /\ step \in {"summary", "success"}) => formData # NULL

\* C27: when step becomes success, the committed draft is the draft that was
\* committed when the confirm whose callback runs was invoked.
C27_SuccessReportsConfirmedDraft ==
    [][(TimerFires /\ step # "success" /\ step' = "success" /\ formData # NULL)
         => formData' = Head(timers).formData]_vars

\* C28: in the tabbed wizard, in summary and success the active tab is the
\* transferType of the committed draft.
C28_ActiveTabMatchesDraft ==
    (mounted /\ wizard = "tabbed" /\ step \in {"summary", "success"} /\ formData # NULL)
        => activeTab = formData.transferType

\* C29: the committed draft is the working draft of the most recent successful
\* submit since the last New Transfer or mount, and null if there was none: it
\* is null at mount, a successful submit sets it to the submitted draft, New
\* Transfer sets it to null, and nothing else changes it.
C29_DraftIsLastSuccessfulSubmit ==
    /\ formData = NULL
    /\ [][/\ SuccessfulSubmit => formData' = values
          /\ HandleNewTransfer => formData' = NULL
          /\ (mounted' /\ ~ SuccessfulSubmit /\ ~ HandleNewTransfer)
               => formData' = formData]_vars

C29_Witness ==
    /\ mounted /\ step = "form" /\ isSubmitted /\ errors # {}
    /\ formData # NULL
    /\ formData.description # values.description

====
